---- MODULE Spec2Model ----
(***************************************************************************)
(* A model of libcamera's thread-affine runtime as used by the camera      *)
(* manager:                                                                *)
(*   - the start-up handshake of CameraManager::Private (start() / run()), *)
(*     camera_manager.cpp;                                                 *)
(*   - Object (object.cpp): postMessage, message, invokeMethod,            *)
(*     moveToThread, connect/disconnect and the destructor, together with  *)
(*     the Thread message queue and the Signal they call into;             *)
(*   - the camera registry of CameraManager::Private (addCamera,           *)
(*     removeCamera, cameras(), get()) and the shutdown in cleanup().      *)
(***************************************************************************)
EXTENDS Integers, Sequences, FiniteSets, TLC

(***************************************************************************)
(* Program constants                                                       *)
(***************************************************************************)
\* errno value init() returns negated (return -ENODEV)
ENODEV == 19

\* errno value the CameraBuffer constructor stores negated (error_ = -EINVAL)
EINVAL == 22

(***************************************************************************)
(* Cameras                                                                 *)
(***************************************************************************)
\* The Camera objects pipeline handlers create. camA and camB are two
\* objects for the same device (same id, same device numbers: the camera
\* unplugged and plugged in again), camC is another device.
Cameras == {"camA", "camB", "camC"}
NoCamera == "none"

\* Camera::id()
CameraId == [camA |-> "id1", camB |-> "id1", camC |-> "id2"]
CameraIds == {"id1", "id2"}

\* camera->properties().get(properties::SystemDevices).value_or({})
SystemDevices == [camA |-> <<1, 2>>, camB |-> <<1, 2>>, camC |-> <<3>>]
DevNums == {1, 2, 3}

\* A message in the manager thread's queue: Message::Type::DeferredDelete
\* for a camera (posted by Object::deleteLater()), or a message of another
\* type for some object of the thread.
NoWMsg == [type |-> "none", cam |-> NoCamera]
OtherMsg == [type |-> "other", cam |-> NoCamera]
DeferredDelete(c) == [type |-> "DeferredDelete", cam |-> c]

\* messages of other types waiting in the manager thread's queue at a time
MaxQueued == 2

VARIABLES
    \* ---- CameraManager::Private ----
    mpc,            \* position of the thread that calls start() / stop()
    wpc,            \* position of the worker thread inside run()
    mutex_,         \* owner of Private::mutex_: "none", "main" or "worker"
    cvWaiters,      \* threads asleep on Private::cv_
    initialized_,   \* Private::initialized_
    status_,        \* Private::status_
    status,         \* start()'s local `status`
    ret,            \* run()'s local `ret`, the result of init()
    exit_,          \* the thread's exit request (set by Thread::exit())
    enumerator_,    \* Private::enumerator_ holds an enumerator
    connected,      \* devicesAdded is connected to createPipelineHandlers
    startRet,       \* the value the last start() returned
    everSlept,      \* history: the waiter has slept on cv_ in this start()
    execEntered,    \* history: run() has entered exec()
    cleanupRan,     \* history: run() has run cleanup()
    \* ---- Object, Thread (message queue) and Signal ----
    life,             \* per object: "unborn", "alive" or "dead" (destroyed)
    thread_,          \* Object::thread_: the thread the object is bound to
    pendingMessages_, \* Object::pendingMessages_
    signals_,         \* Object::signals_: the signals the object is connected to
    slots,            \* per signal: the receivers of its subscriptions, in order
    queue,            \* per thread: its message queue
    running,          \* per thread: the message whose handler it is executing
    call,             \* per thread: its Object::postMessage() call in progress
    emitting,         \* per thread: the Signal::emit() it is about to return from
    posted,           \* number of messages posted so far (stamps the next one)
    invoked,          \* number of bound methods run so far
    slotOnDead,       \* history: emit() activated a slot of a destroyed object
    msgToDead,        \* history: a message was delivered to a destroyed object
    discarded,        \* history: messages removed from a queue undelivered
    moving,           \* per thread: the moveToThread() call it is inside
    \* ---- CameraManager::Private: the camera registry ----
    cameras_,         \* Private::cameras_: the registered cameras, in order
    camerasByDevnum_, \* Private::camerasByDevnum_: device number -> camera
    appRefs,          \* cameras the application holds a shared_ptr to
    unregistered,     \* history: cameras removeCamera() has unregistered
    cpc,              \* position of the worker inside addCamera/removeCamera
    ccam,             \* the `camera` argument of that call
    lastOp,           \* history: how the last addCamera/removeCamera ended
    \* ---- the manager thread's message queue and event loop ----
    wq,               \* the messages queued for objects of the manager thread
    handling,         \* the message the manager thread is delivering
    \* ---- CameraBuffer::Private (generic Android backend) ----
    bpc,              \* "none": no buffer; "new": constructor called; "ready"
    camera3Buffer,    \* the handle passed in: data[0] and the plane layout
    pixelFormatValid, \* PixelFormatInfo::info(pixelFormat).isValid()
    fileLength,       \* what lseek(fd, 0, SEEK_END) gives for the handle's fd
    fd_,              \* Private::fd_
    bufferLength_,    \* Private::bufferLength_
    mapped_,          \* Private::mapped_
    planeInfo_,       \* Private::planeInfo_: offset and size of each plane
    error_,           \* MappedBuffer::error_
    ctorError,        \* history: error_ as the constructor left it
    maps_,            \* MappedBuffer::maps_: the length of each mapping
    planes_,          \* MappedBuffer::planes_: start and size of each span
    span              \* the span the last plane() call returned

mgrVars == <<mpc, wpc, mutex_, cvWaiters, initialized_, status_, status, ret,
             exit_, enumerator_, connected, startRet, everSlept, execEntered,
             cleanupRan>>

objVars == <<life, thread_, pendingMessages_, signals_, slots, queue, running,
             call, emitting, posted, invoked, slotOnDead, msgToDead,
             discarded, moving>>

camVars == <<cameras_, camerasByDevnum_, appRefs, unregistered, cpc, ccam,
             lastOp>>

loopVars == <<wq, handling>>

bufVars == <<bpc, camera3Buffer, pixelFormatValid, fileLength, fd_,
             bufferLength_, mapped_, planeInfo_, error_, ctorError, maps_,
             planes_, span>>

vars == <<mgrVars, objVars, camVars, loopVars, bufVars>>

(***************************************************************************)
(* CameraBuffer: values                                                    *)
(***************************************************************************)
\* planes a buffer handle describes
MaxPlanes == 2

\* Sizes, offsets and lengths are counted in words of 4 bytes (the handles
\* modelled have word-aligned planes): unsigned int arithmetic, which wraps
\* at 2^32 bytes, wraps at 2^30 words
UIntModulus == 2^30

\* the plane sizes and offsets a handle may carry (unsigned int), among them
\* the largest one
PlaneValues == {0, 1, 2, UIntModulus - 1}

\* what lseek(fd, 0, SEEK_END) may give: -1 on failure, else the length of
\* the dmabuf
FileLengths == {-1, 0, 1, 2}

\* camera3Buffer->data[0]: no file descriptor, or one
HandleFds == {-1, 3}

\* errno after a failed lseek() or mmap()
Errnos == {9, 12}

\* the layouts a handle may describe: num_planes planes, each with a size
\* and an offset
PlaneLayouts ==
    UNION {[1..n -> [offset : PlaneValues, size : PlaneValues]] :
              n \in 0..MaxPlanes}

\* an empty Span
NoSpan == [start |-> 0, size |-> 0, valid |-> FALSE]

\* no CameraBuffer exists
InitNoBuf ==
    /\ bpc = "none"
    /\ camera3Buffer = [fd |-> -1, planes |-> <<>>]
    /\ pixelFormatValid = FALSE
    /\ fileLength = -1
    /\ fd_ = -1
    /\ bufferLength_ = -1
    /\ mapped_ = FALSE
    /\ planeInfo_ = <<>>
    /\ error_ = 0
    /\ ctorError = 0
    /\ maps_ = <<>>
    /\ planes_ = <<>>
    /\ span = NoSpan

\* An integer-valued local that may not be set yet is a sequence: empty
\* while unset, <<v>> once it holds v.
NoValue == <<>>

\* status_ is not initialised by the constructor (only initialized_ is): it
\* starts with whatever the memory holds
StatusGarbage == {-ENODEV, 0, 1}

(***************************************************************************)
(* CameraManager::Private::init()                                          *)
(***************************************************************************)
\* The ways init() can go: DeviceEnumerator::create() gives no enumerator,
\* enumerate() fails, or both succeed.
InitOutcomes == {"nocreate", "enumfail", "ok"}

InitResult(outcome) == IF outcome = "ok" THEN 0 ELSE -ENODEV

(***************************************************************************)
(* CameraManager::Private::start()                                         *)
(***************************************************************************)
\* Thread::start(): spawn the worker, which begins run()
CallStart ==
    /\ UNCHANGED <<objVars, camVars, loopVars, bufVars>>
    /\ mpc = "idle"
    /\ wpc = "none"
    /\ mpc' = "lock"
    /\ wpc' = "init"
    /\ exit_' = FALSE
    /\ startRet' = NoValue
    /\ everSlept' = FALSE
    /\ UNCHANGED <<mutex_, cvWaiters, initialized_, status_, status, ret,
                   enumerator_, connected, execEntered, cleanupRan>>

\* MutexLocker locker(mutex_)
StartLock ==
    /\ UNCHANGED <<objVars, camVars, loopVars, bufVars>>
    /\ mpc = "lock"
    /\ mutex_ = "none"
    /\ mutex_' = "main"
    /\ mpc' = "wait"
    /\ UNCHANGED <<wpc, cvWaiters, initialized_, status_, status, ret, exit_,
                   enumerator_, connected, startRet, everSlept, execEntered,
                   cleanupRan>>

\* mutant: the wait's predicate is always satisfied
StartWaitPredicateAlways == TRUE

\* the predicate of cv_.wait(): return initialized_
StartWaitPredicate == initialized_

\* mutant: cv_.wait(locker) without a predicate: sleep once, whatever
\* initialized_ is, and go on at the first wake-up
StartWaitNoPredicate ==
    /\ UNCHANGED <<objVars, camVars, loopVars, bufVars>>
    /\ mpc = "wait"
    /\ mutex_ = "main"
    /\ mpc' = IF everSlept THEN "read" ELSE "block"
    /\ UNCHANGED <<wpc, mutex_, cvWaiters, initialized_, status_, status, ret,
                   exit_, enumerator_, connected, startRet, everSlept,
                   execEntered, cleanupRan>>

\* cv_.wait(locker, pred) is while (!pred()) wait(locker): the predicate is
\* evaluated with the mutex held
StartWaitCheck ==
    /\ UNCHANGED <<objVars, camVars, loopVars, bufVars>>
    /\ mpc = "wait"
    /\ mutex_ = "main"
    /\ mpc' = IF StartWaitPredicate THEN "read" ELSE "block"
    /\ UNCHANGED <<wpc, mutex_, cvWaiters, initialized_, status_, status, ret,
                   exit_, enumerator_, connected, startRet, everSlept,
                   execEntered, cleanupRan>>

\* wait(locker): release the mutex and go to sleep on cv_ in one atomic step
StartWaitSleep ==
    /\ UNCHANGED <<objVars, camVars, loopVars, bufVars>>
    /\ mpc = "block"
    /\ mutex_ = "main"
    /\ mpc' = "sleeping"
    /\ mutex_' = "none"
    /\ cvWaiters' = cvWaiters \cup {"main"}
    /\ everSlept' = TRUE
    /\ UNCHANGED <<wpc, initialized_, status_, status, ret, exit_,
                   enumerator_, connected, startRet, execEntered, cleanupRan>>

\* the sleeper has been notified
StartWake ==
    /\ UNCHANGED <<objVars, camVars, loopVars, bufVars>>
    /\ mpc = "sleeping"
    /\ "main" \notin cvWaiters
    /\ mpc' = "relock"
    /\ UNCHANGED <<wpc, mutex_, cvWaiters, initialized_, status_, status, ret,
                   exit_, enumerator_, connected, startRet, everSlept,
                   execEntered, cleanupRan>>

\* a condition variable may wake its sleeper without a notify
SpuriousWake ==
    /\ UNCHANGED <<objVars, camVars, loopVars, bufVars>>
    /\ mpc = "sleeping"
    /\ "main" \in cvWaiters
    /\ cvWaiters' = cvWaiters \ {"main"}
    /\ mpc' = "relock"
    /\ UNCHANGED <<wpc, mutex_, initialized_, status_, status, ret, exit_,
                   enumerator_, connected, startRet, everSlept, execEntered,
                   cleanupRan>>

\* the woken waiter takes the mutex again before it re-evaluates the predicate
StartRelock ==
    /\ UNCHANGED <<objVars, camVars, loopVars, bufVars>>
    /\ mpc = "relock"
    /\ mutex_ = "none"
    /\ mutex_' = "main"
    /\ mpc' = "wait"
    /\ UNCHANGED <<wpc, cvWaiters, initialized_, status_, status, ret, exit_,
                   enumerator_, connected, startRet, everSlept, execEntered,
                   cleanupRan>>

\* status = status_; the locker's scope ends
StartReadStatus ==
    /\ UNCHANGED <<objVars, camVars, loopVars, bufVars>>
    /\ mpc = "read"
    /\ mutex_ = "main"
    /\ status' = <<status_>>
    /\ mutex_' = "none"
    /\ mpc' = "check"
    /\ UNCHANGED <<wpc, cvWaiters, initialized_, status_, ret, exit_,
                   enumerator_, connected, startRet, everSlept, execEntered,
                   cleanupRan>>

\* if (status < 0) ... ; return 0
StartCheck ==
    /\ UNCHANGED <<objVars, camVars, loopVars, bufVars>>
    /\ mpc = "check"
    /\ IF status[1] < 0
       THEN /\ mpc' = "exit"
            /\ UNCHANGED startRet
       ELSE /\ mpc' = "started"
            /\ startRet' = <<0>>
    /\ UNCHANGED <<wpc, mutex_, cvWaiters, initialized_, status_, status, ret,
                   exit_, enumerator_, connected, everSlept, execEntered,
                   cleanupRan>>

\* exit() on the failure path
StartFailExit ==
    /\ UNCHANGED <<objVars, camVars, loopVars, bufVars>>
    /\ mpc = "exit"
    /\ exit_' = TRUE
    /\ mpc' = "join"
    /\ UNCHANGED <<wpc, mutex_, cvWaiters, initialized_, status_, status, ret,
                   enumerator_, connected, startRet, everSlept, execEntered,
                   cleanupRan>>

\* mutant: the failure path returns without wait()
StartFailWaitSkipped ==
    /\ UNCHANGED <<objVars, camVars, loopVars, bufVars>>
    /\ mpc = "join"
    /\ mpc' = "failed"
    /\ startRet' = status
    /\ UNCHANGED <<wpc, mutex_, cvWaiters, initialized_, status_, status, ret,
                   exit_, enumerator_, connected, everSlept, execEntered,
                   cleanupRan>>

\* wait(); return status: wait() returns once the worker has left run()
StartFailWait ==
    /\ UNCHANGED <<objVars, camVars, loopVars, bufVars>>
    /\ mpc = "join"
    /\ wpc = "finished"
    /\ wpc' = "joined"
    /\ mpc' = "failed"
    /\ startRet' = status
    /\ UNCHANGED <<mutex_, cvWaiters, initialized_, status_, status, ret,
                   exit_, enumerator_, connected, everSlept, execEntered,
                   cleanupRan>>

(***************************************************************************)
(* CameraManager::stop()                                                   *)
(***************************************************************************)
\* d->exit()
StopExit ==
    /\ UNCHANGED <<objVars, camVars, loopVars, bufVars>>
    /\ mpc = "started"
    /\ exit_' = TRUE
    /\ mpc' = "stop_wait"
    /\ UNCHANGED <<wpc, mutex_, cvWaiters, initialized_, status_, status, ret,
                   enumerator_, connected, startRet, everSlept, execEntered,
                   cleanupRan>>

\* d->wait()
StopWait ==
    /\ UNCHANGED <<objVars, camVars, loopVars, bufVars>>
    /\ mpc = "stop_wait"
    /\ wpc = "finished"
    /\ wpc' = "joined"
    /\ mpc' = "stopped"
    /\ UNCHANGED <<mutex_, cvWaiters, initialized_, status_, status, ret,
                   exit_, enumerator_, connected, startRet, everSlept,
                   execEntered, cleanupRan>>

(***************************************************************************)
(* CameraManager::Private::run()                                           *)
(***************************************************************************)
\* int ret = init(), up to createPipelineHandlers(): the enumerator is
\* created and enumerates; on failure init() returns -ENODEV at once
RunInit ==
    /\ UNCHANGED <<objVars, camVars, loopVars, bufVars>>
    /\ wpc = "init"
    /\ \E outcome \in InitOutcomes :
          /\ enumerator_' = (outcome # "nocreate")
          /\ IF outcome = "ok"
             THEN /\ wpc' = "handlers"
                  /\ UNCHANGED ret
             ELSE /\ wpc' = "lockm"
                  /\ ret' = <<InitResult(outcome)>>
    /\ UNCHANGED <<mpc, mutex_, cvWaiters, initialized_, status_, status,
                   exit_, connected, startRet, everSlept, execEntered,
                   cleanupRan>>

\* the end of init(): createPipelineHandlers() has returned (the pipeline
\* handlers it matched have registered their cameras), devicesAdded is
\* connected to createPipelineHandlers and init() returns 0
RunInitConnect ==
    /\ UNCHANGED <<objVars, camVars, loopVars, bufVars>>
    /\ wpc = "handlers"
    /\ cpc = "idle"
    /\ connected' = TRUE
    /\ ret' = <<InitResult("ok")>>
    /\ wpc' = "lockm"
    /\ UNCHANGED <<mpc, mutex_, cvWaiters, initialized_, status_, status,
                   exit_, enumerator_, startRet, everSlept, execEntered,
                   cleanupRan>>

\* mutant: run() publishes without taking the mutex
RunLockSkipped ==
    /\ UNCHANGED <<objVars, camVars, loopVars, bufVars>>
    /\ wpc = "lockm"
    /\ wpc' = "publish"
    /\ UNCHANGED <<mpc, mutex_, cvWaiters, initialized_, status_, status, ret,
                   exit_, enumerator_, connected, startRet, everSlept,
                   execEntered, cleanupRan>>

\* mutex_.lock()
RunLock ==
    /\ UNCHANGED <<objVars, camVars, loopVars, bufVars>>
    /\ wpc = "lockm"
    /\ mutex_ = "none"
    /\ mutex_' = "worker"
    /\ wpc' = "publish"
    /\ UNCHANGED <<mpc, cvWaiters, initialized_, status_, status, ret, exit_,
                   enumerator_, connected, startRet, everSlept, execEntered,
                   cleanupRan>>

\* status_ = ret; initialized_ = true
RunPublish ==
    /\ UNCHANGED <<objVars, camVars, loopVars, bufVars>>
    /\ wpc = "publish"
    /\ status_' = ret[1]
    /\ initialized_' = TRUE
    /\ wpc' = "unlockm"
    /\ UNCHANGED <<mpc, mutex_, cvWaiters, status, ret, exit_, enumerator_,
                   connected, startRet, everSlept, execEntered, cleanupRan>>

\* mutex_.unlock()
RunUnlock ==
    /\ UNCHANGED <<objVars, camVars, loopVars, bufVars>>
    /\ wpc = "unlockm"
    /\ mutex_' = IF mutex_ = "worker" THEN "none" ELSE mutex_
    /\ wpc' = "notify"
    /\ UNCHANGED <<mpc, cvWaiters, initialized_, status_, status, ret, exit_,
                   enumerator_, connected, startRet, everSlept, execEntered,
                   cleanupRan>>

\* cv_.notify_one(): wakes one sleeper, and is lost when nobody sleeps
RunNotify ==
    /\ UNCHANGED <<objVars, camVars, loopVars, bufVars>>
    /\ wpc = "notify"
    /\ IF cvWaiters = {}
       THEN UNCHANGED cvWaiters
       ELSE \E w \in cvWaiters : cvWaiters' = cvWaiters \ {w}
    /\ wpc' = "branch"
    /\ UNCHANGED <<mpc, mutex_, initialized_, status_, status, ret, exit_,
                   enumerator_, connected, startRet, everSlept, execEntered,
                   cleanupRan>>

\* if (ret < 0) return; otherwise enter exec()
RunBranch ==
    /\ UNCHANGED <<objVars, camVars, loopVars, bufVars>>
    /\ wpc = "branch"
    /\ IF ret[1] < 0
       THEN /\ wpc' = "finished"
            /\ UNCHANGED execEntered
       ELSE /\ wpc' = "exec"
            /\ execEntered' = TRUE
    /\ UNCHANGED <<mpc, mutex_, cvWaiters, initialized_, status_, status, ret,
                   exit_, enumerator_, connected, startRet, everSlept,
                   cleanupRan>>

\* exec() returns once exit has been requested
RunExec ==
    /\ UNCHANGED <<objVars, camVars, loopVars, bufVars>>
    /\ wpc = "exec"
    /\ exit_
    /\ cpc = "idle"
    /\ handling = NoWMsg
    /\ wpc' = "cleanup"
    /\ UNCHANGED <<mpc, mutex_, cvWaiters, initialized_, status_, status, ret,
                   exit_, enumerator_, connected, startRet, everSlept,
                   execEntered, cleanupRan>>

\* mutant: cleanup() does not disconnect from devicesAdded
CleanupDisconnectSkipped ==
    /\ UNCHANGED <<objVars, camVars, loopVars, bufVars>>
    /\ wpc = "cleanup"
    /\ cleanupRan' = TRUE
    /\ wpc' = "cl_clear"
    /\ UNCHANGED <<mpc, mutex_, cvWaiters, initialized_, status_, status, ret,
                   exit_, enumerator_, connected, startRet, everSlept,
                   execEntered>>

\* cleanup(): enumerator_->devicesAdded.disconnect(this)
CleanupDisconnect ==
    /\ UNCHANGED <<objVars, camVars, loopVars, bufVars>>
    /\ wpc = "cleanup"
    /\ connected' = FALSE
    /\ cleanupRan' = TRUE
    /\ wpc' = "cl_clear"
    /\ UNCHANGED <<mpc, mutex_, cvWaiters, initialized_, status_, status, ret,
                   exit_, enumerator_, startRet, everSlept, execEntered>>

\* Cameras are destroyed through Object::deleteLater(): when the last
\* shared_ptr to a camera goes away a DeferredDelete message for it joins
\* the manager thread's queue. `gone` are the cameras that lose their last
\* reference, in the order they lose it.
DeferDelete(q, gone) ==
    q \o [i \in 1..Len(gone) |-> DeferredDelete(gone[i])]

\* cleanup(): { MutexLocker locker(mutex_); cameras_.clear(); }
CleanupClear ==
    /\ UNCHANGED <<objVars, bufVars>>
    /\ wpc = "cl_clear"
    /\ mutex_ = "none"
    /\ cameras_' = <<>>
    /\ wq' = DeferDelete(wq, SelectSeq(cameras_, LAMBDA c : c \notin appRefs))
    /\ wpc' = "cl_dispatch"
    /\ UNCHANGED <<mpc, mutex_, cvWaiters, initialized_, status_, status, ret,
                   exit_, enumerator_, connected, startRet, everSlept,
                   execEntered, cleanupRan>>
    /\ UNCHANGED <<camerasByDevnum_, appRefs, unregistered, cpc, ccam, lastOp,
                   handling>>

\* mutant: cleanup() dispatches the queued messages of every type
CleanupDispatchesAll(m) == TRUE

\* dispatchMessages(Message::Type::DeferredDelete): the messages cleanup()
\* delivers
CleanupDispatches(m) == m.type = "DeferredDelete"

\* the positions in q of the messages cleanup() delivers
CleanupPending(q) == {i \in 1..Len(q) : CleanupDispatches(q[i])}

\* q without its i-th message
WithoutMsg(q, i) ==
    [k \in 1..(Len(q) - 1) |-> IF k < i THEN q[k] ELSE q[k + 1]]

\* dispatchMessages(DeferredDelete): the first queued message of that type
\* is taken from the queue and delivered (the camera is deleted)
CleanupDispatch ==
    /\ UNCHANGED <<objVars, camVars, bufVars>>
    /\ wpc = "cl_dispatch"
    /\ handling = NoWMsg
    /\ CleanupPending(wq) # {}
    /\ LET i == CHOOSE k \in CleanupPending(wq) :
                    \A l \in CleanupPending(wq) : k <= l
       IN  /\ handling' = wq[i]
           /\ wq' = WithoutMsg(wq, i)
    /\ UNCHANGED mgrVars

\* dispatchMessages(DeferredDelete) returns once no such message is queued
CleanupDispatchDone ==
    /\ UNCHANGED <<objVars, camVars, loopVars, bufVars>>
    /\ wpc = "cl_dispatch"
    /\ handling = NoWMsg
    /\ CleanupPending(wq) = {}
    /\ wpc' = "cl_reset"
    /\ UNCHANGED <<mpc, mutex_, cvWaiters, initialized_, status_, status, ret,
                   exit_, enumerator_, connected, startRet, everSlept,
                   execEntered, cleanupRan>>

\* cleanup(): enumerator_.reset(nullptr), and run() returns
CleanupReset ==
    /\ UNCHANGED <<objVars, camVars, loopVars, bufVars>>
    /\ wpc = "cl_reset"
    /\ enumerator_' = FALSE
    /\ wpc' = "finished"
    /\ UNCHANGED <<mpc, mutex_, cvWaiters, initialized_, status_, status, ret,
                   exit_, connected, startRet, everSlept, execEntered,
                   cleanupRan>>

(***************************************************************************)
(* The event loop of the manager thread: Thread::exec()                    *)
(***************************************************************************)
\* mutant: the loop does not look at the exit request before it dequeues
ExitRequestedNever == FALSE

\* the loop's test of the exit request, made before each dequeue
ExitRequested == exit_

\* exec(): the loop takes the message at the head of the queue and delivers
\* it to its receiver's message()
ExecDispatch ==
    /\ UNCHANGED <<objVars, camVars, bufVars>>
    /\ wpc = "exec"
    /\ ~ExitRequested
    /\ cpc = "idle"
    /\ handling = NoWMsg
    /\ wq # <<>>
    /\ handling' = Head(wq)
    /\ wq' = Tail(wq)
    /\ UNCHANGED mgrVars

\* message() returns to the loop, or to dispatchMessages() in cleanup()
HandlerDone ==
    /\ UNCHANGED <<objVars, camVars, bufVars>>
    /\ wpc \in {"exec", "cl_dispatch"}
    /\ handling # NoWMsg
    /\ handling' = NoWMsg
    /\ UNCHANGED wq
    /\ UNCHANGED mgrVars

\* some thread posts a message of another type to an object of the manager
\* thread
PostOther ==
    /\ UNCHANGED <<objVars, camVars, bufVars>>
    /\ wpc \in {"exec", "cleanup", "cl_clear", "cl_dispatch"}
    /\ Cardinality({i \in 1..Len(wq) : wq[i] = OtherMsg}) < MaxQueued
    /\ wq' = Append(wq, OtherMsg)
    /\ UNCHANGED handling
    /\ UNCHANGED mgrVars

(***************************************************************************)
(* Object, the Thread message queue and Signal                             *)
(***************************************************************************)
Threads == {"t1", "t2"}
Objects == {"o1", "o2"}
Signals == {"s1"}

\* messages posted in one behaviour
MaxPosts == 2
\* subscriptions one signal holds
MaxSlots == 2

\* Message::InvokeMessage, and any other message type
MsgTypes == {"invoke", "user"}

\* "no message", "no call", "no emit"
NoMsg == [rcv |-> "none", type |-> "none", src |-> "none", seq |-> 0]
NoCall == [rcv |-> "none", type |-> "none", thread |-> "none"]
NoEmit == [sig |-> "none", sync |-> {}, queued |-> {}]
NoMove == [obj |-> "none", target |-> "none", stage |-> "none"]

\* a failed ASSERT() has ended the process
Aborted == \E t \in Threads : moving[t].stage = "aborted"

\* thread t is executing neither a message handler, nor a postMessage()
\* call, nor an emit(), nor a moveToThread(), and the process is running
Idle(t) ==
    /\ running[t] = NoMsg
    /\ call[t] = NoCall
    /\ emitting[t] = NoEmit
    /\ moving[t] = NoMove
    /\ ~Aborted

\* some thread is inside a handler of o or inside a call on o
InUse(o) ==
    \E t \in Threads :
        \/ running[t].rcv = o
        \/ call[t].rcv = o
        \/ o \in emitting[t].sync
        \/ moving[t].obj = o

\* postMessage() calls that have not reached the queue yet
InFlight == Cardinality({t \in Threads : call[t] # NoCall})

\* the receivers of a signal's subscriptions
Receivers(s) == {slots[s][i] : i \in 1..Len(slots[s])}

\* Object::postMessage(msg), up to the call it makes: thread() is evaluated,
\* then Thread::postMessage() is called on the thread it gave
ObjectPostMessage(t, o, type) ==
    /\ UNCHANGED <<mgrVars, camVars, loopVars, bufVars>>
    /\ UNCHANGED moving
    /\ Idle(t)
    /\ life[o] = "alive"
    /\ posted + InFlight < MaxPosts
    /\ call' = [call EXCEPT ![t] =
                    [rcv |-> o, type |-> type, thread |-> thread_[o]]]
    /\ UNCHANGED <<life, thread_, pendingMessages_, signals_, slots, queue,
                   running, emitting, posted, invoked, slotOnDead,
                   msgToDead,
                   discarded>>

\* application code posts a message of a type of its own
PostMessage(t, o) == ObjectPostMessage(t, o, "user")

\* mutant: invokeMethod() calls the method at once when the caller already
\* runs on the object's thread
InvokeMethodDirect(t, o) ==
    IF thread_[o] = t
    THEN /\ UNCHANGED <<mgrVars, camVars, loopVars, bufVars>>
         /\ UNCHANGED moving
         /\ Idle(t)
         /\ life[o] = "alive"
         /\ invoked' = invoked + 1
         /\ UNCHANGED <<life, thread_, pendingMessages_, signals_, slots,
                        queue, running, call, emitting, posted, slotOnDead,
                        msgToDead,
                   discarded>>
    ELSE ObjectPostMessage(t, o, "invoke")

\* Object::invokeMethod(method, args): wrap the call in an InvokeMessage and
\* post it
InvokeMethod(t, o) == ObjectPostMessage(t, o, "invoke")

\* mutant: the queue takes a new message at its front
EnqueueFront(q, m) == <<m>> \o q

\* the queue takes a new message at its back
Enqueue(q, m) == Append(q, m)

\* Thread::postMessage(msg, receiver), called on the thread that
\* Object::postMessage() read: the message joins that thread's queue and the
\* receiver's pendingMessages_ is incremented
ThreadPostMessage(t) ==
    /\ UNCHANGED <<mgrVars, camVars, loopVars, bufVars>>
    /\ UNCHANGED moving
    /\ call[t] # NoCall
    /\ ~Aborted
    /\ LET c == call[t]
           m == [rcv |-> c.rcv, type |-> c.type, src |-> t,
                 seq |-> posted + 1]
       IN  /\ queue' = [queue EXCEPT ![c.thread] = Enqueue(@, m)]
           /\ pendingMessages_' = [pendingMessages_ EXCEPT ![c.rcv] = @ + 1]
    /\ posted' = posted + 1
    /\ call' = [call EXCEPT ![t] = NoCall]
    /\ UNCHANGED <<life, thread_, signals_, slots, running, emitting, invoked,
                   slotOnDead, msgToDead,
                   discarded>>

\* mutant: the default handler runs the bound method for every message type
MessageInvokesAny(type) == TRUE

\* Object::message(msg): an InvokeMessage is invoked, every other type is
\* ignored
MessageInvokes(type) == type = "invoke"

\* the event loop of thread t takes the message at the head of its queue and
\* delivers it to its receiver's message()
Dispatch(t) ==
    /\ UNCHANGED <<mgrVars, camVars, loopVars, bufVars>>
    /\ UNCHANGED moving
    /\ Idle(t)
    /\ queue[t] # <<>>
    /\ LET m == Head(queue[t])
       IN  /\ queue' = [queue EXCEPT ![t] = Tail(@)]
           /\ pendingMessages_' = [pendingMessages_ EXCEPT ![m.rcv] = @ - 1]
           /\ running' = [running EXCEPT ![t] = m]
           /\ invoked' = IF MessageInvokes(m.type) THEN invoked + 1
                                                       ELSE invoked
           /\ msgToDead' = (msgToDead \/ life[m.rcv] # "alive")
    /\ UNCHANGED <<life, thread_, signals_, slots, call, emitting, posted,
                   slotOnDead, discarded>>

\* message() returns to the event loop
HandlerReturn(t) ==
    /\ UNCHANGED <<mgrVars, camVars, loopVars, bufVars>>
    /\ UNCHANGED moving
    /\ running[t] # NoMsg
    /\ ~Aborted
    /\ running' = [running EXCEPT ![t] = NoMsg]
    /\ UNCHANGED <<life, thread_, pendingMessages_, signals_, slots, queue,
                   call, emitting, posted, invoked, slotOnDead, msgToDead,
                   discarded>>

\* Object::connect(signal): signals_.push_back(signal)
ObjectConnect(sigs, s) == Append(sigs, s)

\* Object::disconnect(signal): every entry of the signal leaves signals_
ObjectDisconnect(sigs, s) == SelectSeq(sigs, LAMBDA x : x # s)

\* Signal::connect(o, slot): the subscription joins the signal's list and the
\* receiver records the signal
Connect(t, s, o) ==
    /\ UNCHANGED <<mgrVars, camVars, loopVars, bufVars>>
    /\ UNCHANGED moving
    /\ Idle(t)
    /\ life[o] = "alive"
    /\ Len(slots[s]) < MaxSlots
    /\ slots' = [slots EXCEPT ![s] = Append(@, o)]
    /\ signals_' = [signals_ EXCEPT ![o] = ObjectConnect(@, s)]
    /\ UNCHANGED <<life, thread_, pendingMessages_, queue, running, call,
                   emitting, posted, invoked, slotOnDead, msgToDead,
                   discarded>>

\* SignalBase::disconnect(o): every subscription of the receiver leaves the
\* signal's list
SignalDisconnect(sl, o) == SelectSeq(sl, LAMBDA r : r # o)

\* Signal::disconnect(o): all of o's subscriptions are removed and o forgets
\* the signal
Disconnect(t, s, o) ==
    /\ UNCHANGED <<mgrVars, camVars, loopVars, bufVars>>
    /\ UNCHANGED moving
    /\ Idle(t)
    /\ life[o] = "alive"
    /\ o \in Receivers(s)
    /\ slots' = [slots EXCEPT ![s] = SignalDisconnect(@, o)]
    /\ signals_' = [signals_ EXCEPT ![o] = ObjectDisconnect(@, s)]
    /\ UNCHANGED <<life, thread_, pendingMessages_, queue, running, call,
                   emitting, posted, invoked, slotOnDead, msgToDead,
                   discarded>>

\* mutant: a slot is always called directly
ActivateDirectAlways(t, o) == TRUE

\* BoundMethod::activate(): the slot is called directly when the emitter runs
\* on the receiver's thread, and posted as an InvokeMessage otherwise
ActivateDirect(t, o) == thread_[o] = t

\* the InvokeMessages one emit() posts, in subscription order
EmitMessages(t, s) ==
    [i \in 1..Len(slots[s]) |->
        [rcv |-> slots[s][i], type |-> "invoke", src |-> t,
         seq |-> posted + Cardinality({j \in 1..i :
                                          ~ActivateDirect(t, slots[s][j])})]]

\* Signal::emit(args): every subscribed slot is activated, in subscription
\* order
Emit(t, s) ==
    /\ UNCHANGED <<mgrVars, camVars, loopVars, bufVars>>
    /\ UNCHANGED moving
    /\ Idle(t)
    /\ LET direct == {o \in Receivers(s) : ActivateDirect(t, o)}
           cross  == {i \in 1..Len(slots[s]) : ~ActivateDirect(t, slots[s][i])}
           msgs   == EmitMessages(t, s)
       IN  /\ posted + InFlight + Cardinality(cross) <= MaxPosts
           /\ queue' = [u \in Threads |->
                 queue[u] \o SelectSeq(msgs, LAMBDA m :
                     ~ActivateDirect(t, m.rcv) /\ thread_[m.rcv] = u)]
           /\ pendingMessages_' = [o \in Objects |->
                 pendingMessages_[o]
                   + Cardinality({i \in cross : slots[s][i] = o})]
           /\ posted' = posted + Cardinality(cross)
           /\ emitting' = [emitting EXCEPT ![t] =
                               [sig    |-> s,
                                sync   |-> direct,
                                queued |-> Receivers(s) \ direct]]
           /\ slotOnDead' =
                 (slotOnDead \/ \E o \in Receivers(s) : life[o] # "alive")
    /\ UNCHANGED <<life, thread_, signals_, slots, running, call, invoked,
                   msgToDead,
                   discarded>>

\* emit() returns to its caller
EmitReturn(t) ==
    /\ UNCHANGED <<mgrVars, camVars, loopVars, bufVars>>
    /\ UNCHANGED moving
    /\ emitting[t] # NoEmit
    /\ ~Aborted
    /\ emitting' = [emitting EXCEPT ![t] = NoEmit]
    /\ UNCHANGED <<life, thread_, pendingMessages_, signals_, slots, queue,
                   running, call, posted, invoked, slotOnDead, msgToDead,
                   discarded>>

\* mutant: the destructor leaves the subscriptions in place
DestructorDisconnectNone(o) == slots

\* ~Object(): for (SignalBase *signal : signals_) signal->disconnect(this)
DestructorDisconnect(o) ==
    [s \in Signals |->
        IF \E i \in 1..Len(signals_[o]) : signals_[o][i] = s
        THEN SignalDisconnect(slots[s], o)
        ELSE slots[s]]

\* mutant: the destructor leaves the queued messages in place
DestructorPurgeNone(o) == queue

\* Thread::removeMessages(receiver): the messages queued for the receiver
\* are dropped from the thread's queue without being delivered
RemoveMessages(t, o) ==
    [queue EXCEPT ![t] = SelectSeq(@, LAMBDA m : m.rcv # o)]

\* ~Object(): if (pendingMessages_) thread()->removeMessages(this)
DestructorPurge(o) ==
    IF pendingMessages_[o] # 0
    THEN RemoveMessages(thread_[o], o)
    ELSE queue

\* Object::~Object(), run while no thread is inside a handler of the object
\* or inside a call on it
Destroy(t, o) ==
    /\ UNCHANGED <<mgrVars, camVars, loopVars, bufVars>>
    /\ UNCHANGED moving
    /\ Idle(t)
    /\ life[o] = "alive"
    /\ ~InUse(o)
    /\ life' = [life EXCEPT ![o] = "dead"]
    /\ slots' = DestructorDisconnect(o)
    /\ queue' = DestructorPurge(o)
    /\ pendingMessages_' = [pendingMessages_ EXCEPT ![o] =
           @ - (Len(queue[thread_[o]]) - Len(queue'[thread_[o]]))]
    /\ discarded' = discarded + Len(queue[thread_[o]])
                               - Len(queue'[thread_[o]])
    /\ UNCHANGED <<thread_, signals_, running, call, emitting, posted,
                   invoked, slotOnDead, msgToDead>>

\* Thread::moveObject(object): the object's queued messages follow it to the
\* back of the target thread's queue
MoveMessages(o, from, to) ==
    IF pendingMessages_[o] # 0
    THEN [u \in Threads |->
            IF u = from THEN SelectSeq(queue[from], LAMBDA m : m.rcv # o)
            ELSE IF u = to
                 THEN queue[to] \o SelectSeq(queue[from], LAMBDA m : m.rcv = o)
                 ELSE queue[u]]
    ELSE queue

\* mutant: the assertion's condition always holds
CalledOnOwnThreadAlways(t, o) == TRUE

\* moveToThread(): the condition of ASSERT(Thread::current() == thread_)
CalledOnOwnThread(t, o) == thread_[o] = t

\* ASSERT(condition) with a false condition: the failure is logged and the
\* process aborts; thread t never returns from the call
AssertFailed(t, o, target) ==
    [moving EXCEPT ![t] = [obj |-> o, target |-> target, stage |-> "aborted"]]

\* mutant: the object is moved at once, without notifyThreadMove()
MoveToThreadUnnotified(t, o, target) ==
    /\ UNCHANGED <<mgrVars, camVars, loopVars, bufVars>>
    /\ Idle(t)
    /\ life[o] = "alive"
    /\ IF ~CalledOnOwnThread(t, o)
       THEN /\ moving' = AssertFailed(t, o, target)
            /\ UNCHANGED <<thread_, queue>>
       ELSE IF thread_[o] = target
            THEN /\ moving' = [moving EXCEPT ![t] =
                        [obj |-> o, target |-> target, stage |-> "return"]]
                 /\ UNCHANGED <<thread_, queue>>
            ELSE /\ queue' = MoveMessages(o, thread_[o], target)
                 /\ thread_' = [thread_ EXCEPT ![o] = target]
                 /\ UNCHANGED moving
    /\ UNCHANGED <<life, pendingMessages_, signals_, slots, running, call,
                   emitting, posted, invoked, slotOnDead, msgToDead,
                   discarded>>

\* Object::moveToThread(thread) called by thread t, up to the call of
\* thread->moveObject(): the assertion, the early return when the object
\* already lives in the target thread, and notifyThreadMove(), which calls
\* message() with a ThreadMoveMessage in the calling thread
MoveToThread(t, o, target) ==
    /\ UNCHANGED <<mgrVars, camVars, loopVars, bufVars>>
    /\ Idle(t)
    /\ life[o] = "alive"
    /\ moving' =
          IF ~CalledOnOwnThread(t, o)
          THEN AssertFailed(t, o, target)
          ELSE [moving EXCEPT ![t] =
                   [obj |-> o, target |-> target,
                    stage |-> IF thread_[o] = target THEN "return"
                                                      ELSE "notify"]]
    /\ UNCHANGED <<life, thread_, pendingMessages_, signals_, slots, queue,
                   running, call, emitting, posted, invoked, slotOnDead,
                   msgToDead, discarded>>

\* moveToThread(): message() has returned (Object::message() ignores a
\* ThreadMoveMessage) and thread->moveObject(this) moves the object
MoveObject(t) ==
    /\ UNCHANGED <<mgrVars, camVars, loopVars, bufVars>>
    /\ moving[t].stage = "notify"
    /\ ~Aborted
    /\ LET o == moving[t].obj
           target == moving[t].target
       IN  /\ queue' = MoveMessages(o, thread_[o], target)
           /\ thread_' = [thread_ EXCEPT ![o] = target]
    /\ moving' = [moving EXCEPT ![t] = NoMove]
    /\ UNCHANGED <<life, pendingMessages_, signals_, slots, running, call,
                   emitting, posted, invoked, slotOnDead, msgToDead,
                   discarded>>

\* moveToThread(): if (thread_ == thread) return
MoveReturn(t) ==
    /\ UNCHANGED <<mgrVars, camVars, loopVars, bufVars>>
    /\ moving[t].stage = "return"
    /\ ~Aborted
    /\ moving' = [moving EXCEPT ![t] = NoMove]
    /\ UNCHANGED <<life, thread_, pendingMessages_, signals_, slots, queue,
                   running, call, emitting, posted, invoked, slotOnDead,
                   msgToDead, discarded>>


(***************************************************************************)
(* Specifications                                                          *)
(***************************************************************************)
\* Object::Object() has run for every object, each in some thread (o1 in
\* t1; threads and objects are interchangeable): pendingMessages_(0),
\* thread_ = Thread::current(); nothing is queued or connected
InitObj ==
    /\ life = [o \in Objects |-> "alive"]
    /\ thread_ \in [Objects -> Threads]
    /\ thread_["o1"] = "t1"
    /\ pendingMessages_ = [o \in Objects |-> 0]
    /\ signals_ = [o \in Objects |-> <<>>]
    /\ slots = [s \in Signals |-> <<>>]
    /\ queue = [t \in Threads |-> <<>>]
    /\ running = [t \in Threads |-> NoMsg]
    /\ call = [t \in Threads |-> NoCall]
    /\ emitting = [t \in Threads |-> NoEmit]
    /\ posted = 0
    /\ invoked = 0
    /\ slotOnDead = FALSE
    /\ msgToDead = FALSE
    /\ discarded = 0
    /\ moving = [t \in Threads |-> NoMove]

\* no camera is registered, the application holds none, and the worker is
\* in neither addCamera() nor removeCamera()
InitCam ==
    /\ cameras_ = <<>>
    /\ camerasByDevnum_ = [d \in DevNums |-> NoCamera]
    /\ appRefs = {}
    /\ unregistered = {}
    /\ cpc = "idle"
    /\ ccam = NoCamera
    /\ lastOp = "none"
    /\ wq = <<>>
    /\ handling = NoWMsg

\* the state CameraManager::Private::Private() leaves
InitMgr ==
    /\ mpc = "idle"
    /\ wpc = "none"
    /\ mutex_ = "none"
    /\ cvWaiters = {}
    /\ initialized_ = FALSE
    /\ status_ \in StatusGarbage
    /\ status = NoValue
    /\ ret = NoValue
    /\ exit_ = FALSE
    /\ enumerator_ = FALSE
    /\ connected = FALSE
    /\ startRet = NoValue
    /\ everSlept = FALSE
    /\ execEntered = FALSE
    /\ cleanupRan = FALSE

\* the manager as constructed, with the objects all made in one thread
Init ==
    /\ InitMgr
    /\ InitObj
    /\ InitCam
    /\ InitNoBuf
    /\ thread_ = [o \in Objects |-> "t1"]

\* the steps of the thread that called start(), once inside start() or stop()
MainStep ==
    \/ StartLock
    \/ StartWaitCheck
    \/ StartWaitSleep
    \/ StartWake
    \/ StartRelock
    \/ StartReadStatus
    \/ StartCheck
    \/ StartFailExit
    \/ StartFailWait
    \/ StopWait

\* the steps of the worker thread
WorkerStep ==
    \/ RunInit
    \/ RunInitConnect
    \/ RunLock
    \/ RunPublish
    \/ RunUnlock
    \/ RunNotify
    \/ RunBranch
    \/ RunExec
    \/ CleanupDisconnect
    \/ CleanupClear
    \/ CleanupDispatchDone
    \/ CleanupReset

Next ==
    \/ CallStart
    \/ StopExit
    \/ SpuriousWake
    \/ MainStep
    \/ WorkerStep

\* one start() of a freshly constructed manager, followed by at most one stop()
Spec == Init /\ [][Next]_vars

\* the same under a fair scheduler: a thread that can take a step again and
\* again eventually takes it (a thread that keeps finding mutex_ free gets
\* it in the end); a spurious wake-up is never owed
SpecFair == Spec /\ SF_vars(MainStep) /\ SF_vars(WorkerStep)

(***************************************************************************)
(* The start-up handshake                                                  *)
(***************************************************************************)
\* start() has returned to its caller
StartReturned == startRet # NoValue

\* the worker has run init() and published the result: status_ and
\* initialized_ are written and the worker has released mutex_ again
InitPublished ==
    /\ ret # NoValue
    /\ initialized_
    /\ status_ = ret[1]
    /\ wpc \in {"notify", "branch", "exec", "cleanup", "cl_clear",
               "cl_dispatch", "cl_reset", "finished", "joined"}

\* C1: whatever the interleaving of the spawning thread and the worker,
\* start() (called on a manager as its constructor left it) does not return
\* before the worker has executed init() and published its result under
\* mutex_, and it returns 0 when init() gave a non-negative result and
\* init()'s own result when that is negative.
C1_StartWaitsForInit ==
    StartReturned =>
        /\ InitPublished
        /\ startRet[1] = IF ret[1] >= 0 THEN 0 ELSE ret[1]

\* C1 witness: start() has returned 0 after the waiter slept on cv_ while the
\* worker was still initialising.
C1_Witness == startRet = <<0>> /\ everSlept /\ ret = <<0>>

\* C2: under fair scheduling every call of start() returns: a wake-up is
\* never lost, wherever the worker's flag write and notify fall relative to
\* the waiter's predicate check and sleep.
C2_StartReturns == (mpc = "lock") ~> StartReturned

\* C2 witness: start() has returned although the notify found nobody asleep
\* (the worker was past notify_one() before the waiter ever slept).
C2_Witness == StartReturned /\ ~everSlept /\ cvWaiters = {}

\* C3: when init() reports a negative result r, start() returns r, and when
\* it returns the worker has terminated and has been joined, exec() was never
\* entered and cleanup() never ran.
C3_FailedStartJoinsWorker ==
    (StartReturned /\ ret # NoValue /\ ret[1] < 0) =>
        /\ startRet = ret
        /\ wpc = "joined"
        /\ ~execEntered
        /\ ~cleanupRan

\* C3 witness: a start() that returned -ENODEV.
C3_Witness == startRet = <<-ENODEV>> /\ mpc = "failed"

\* C4 as claimed: no state in which the worker has set initialized_, has
\* released mutex_ and has not yet issued the notify.
C4_NotifyUnderMutex ==
    ~(wpc = "notify" /\ initialized_ /\ mutex_ # "worker")

\* C4 as amended: the worker writes status_ and initialized_ while it holds
\* mutex_; it issues the notify after it has released mutex_, with
\* initialized_ already true.
C4_FlagUnderMutexNotifyAfter ==
    /\ wpc = "publish" => mutex_ = "worker"
    /\ wpc = "unlockm" => (mutex_ = "worker" /\ initialized_)
    /\ wpc = "notify" => (mutex_ # "worker" /\ initialized_)

\* C4 witness: the worker is about to notify, the mutex is free and the
\* waiter is asleep on cv_.
C4_Witness ==
    wpc = "notify" /\ mutex_ = "none" /\ mpc = "sleeping" /\ "main" \in cvWaiters

\* the steps of the Object runtime, objects staying on the thread they were
\* constructed in
NextObj ==
    \/ \E t \in Threads, o \in Objects : PostMessage(t, o)
    \/ \E t \in Threads, o \in Objects : InvokeMethod(t, o)
    \/ \E t \in Threads : ThreadPostMessage(t)
    \/ \E t \in Threads : Dispatch(t)
    \/ \E t \in Threads : HandlerReturn(t)
    \/ \E t \in Threads, s \in Signals, o \in Objects : Connect(t, s, o)
    \/ \E t \in Threads, s \in Signals, o \in Objects : Disconnect(t, s, o)
    \/ \E t \in Threads, s \in Signals : Emit(t, s)
    \/ \E t \in Threads : EmitReturn(t)
    \/ \E t \in Threads, o \in Objects : Destroy(t, o)

\* posting, dispatching and emitting while objects move between threads
NextMove ==
    \/ \E t \in Threads, o \in Objects : PostMessage(t, o)
    \/ \E t \in Threads, o \in Objects : InvokeMethod(t, o)
    \/ \E t \in Threads : ThreadPostMessage(t)
    \/ \E t \in Threads : Dispatch(t)
    \/ \E t \in Threads : HandlerReturn(t)
    \/ \E t \in Threads, s \in Signals, o \in Objects : Connect(t, s, o)
    \/ \E t \in Threads, s \in Signals : Emit(t, s)
    \/ \E t \in Threads : EmitReturn(t)
    \/ \E t \in Threads, o \in Objects, target \in Threads :
          MoveToThread(t, o, target)
    \/ \E t \in Threads : MoveObject(t)
    \/ \E t \in Threads : MoveReturn(t)

\* the Object runtime alone: the manager stays as constructed
InitRuntime == InitMgr /\ status_ = 0 /\ InitObj /\ InitCam /\ InitNoBuf

SpecObj == InitRuntime /\ [][NextObj]_vars

SpecMove == InitRuntime /\ [][NextMove]_vars

(***************************************************************************)
(* Object lifetime, message delivery and signals                           *)
(***************************************************************************)
\* the messages in thread t's queue
Queued(t) == {queue[t][i] : i \in 1..Len(queue[t])}

\* C5: once the destructor of an Object has run, no signal holds a
\* subscription whose receiver is that object, and no later emit activates a
\* slot of it, whichever threads the object and the emitter are bound to.
C5_DestroyedNeverInvoked ==
    /\ \A o \in Objects : life[o] = "dead" =>
           \A s \in Signals : o \notin Receivers(s)
    /\ ~slotOnDead

\* C5 witness: an object that was connected to s1 when it was destroyed, and
\* an emit of s1 in progress that reaches another receiver.
C5_Witness ==
    \E o \in Objects, t \in Threads :
        /\ life[o] = "dead"
        /\ signals_[o] # <<>>
        /\ emitting[t].sig = "s1"
        /\ emitting[t].sync \cup emitting[t].queued # {}

C7_FifoDelivery ==
    \A t \in Threads :
        /\ \A i, j \in 1..Len(queue[t]) :
               (i < j /\ queue[t][i].src = queue[t][j].src) =>
                   queue[t][i].seq < queue[t][j].seq
        /\ running[t] # NoMsg =>
               \A m \in Queued(t) :
                   m.src = running[t].src => running[t].seq < m.seq

\* C7 witness: a thread delivers the first message of a source while the
\* second message of that source, for another object, waits in its queue.
C7_Witness ==
    \E t \in Threads :
        /\ running[t] # NoMsg
        /\ running[t].seq = 1
        /\ Len(queue[t]) = 1
        /\ \A m \in Queued(t) :
               /\ m.src = running[t].src
               /\ m.rcv # running[t].rcv
               /\ m.seq = 2

\* C8: message() for an Object runs only on the thread the object is bound
\* to, and never on two threads at once; directly called slots run on the
\* object's thread as well.
C8_ThreadAffinity ==
    /\ \A t \in Threads :
           running[t] # NoMsg => thread_[running[t].rcv] = t
    /\ \A t, u \in Threads :
           (t # u /\ running[t] # NoMsg) => running[t].rcv # running[u].rcv
    /\ \A t \in Threads : \A o \in emitting[t].sync : thread_[o] = t

\* C9: when emit returns, the slots of the receivers bound to the emitting
\* thread have run, and for the receivers bound to another thread an invoke
\* message has been posted instead; a posted slot runs on its receiver's
\* thread.
C9_EmitDeliveryMode ==
    /\ \A t \in Threads :
           LET all == emitting[t].sync \cup emitting[t].queued
           IN  /\ emitting[t].sync = {o \in all : thread_[o] = t}
               /\ emitting[t].queued = {o \in all : thread_[o] # t}
    /\ \A u \in Threads :
           running[u] # NoMsg => thread_[running[u].rcv] = u

\* C9 witness: an emit about to return has run the slot of a receiver of its
\* own thread, and the invoke message for a receiver of the other thread is
\* still in that thread's queue.
C9_Witness ==
    \E t \in Threads, o \in Objects :
        /\ emitting[t].sync # {}
        /\ emitting[t].queued = {o}
        /\ \E m \in Queued(thread_[o]) :
               m.rcv = o /\ m.src = t /\ m.type = "invoke"

\* C10: invokeMethod never runs the bound method inside the call: the count
\* of bound methods run changes only in the step in which an event loop
\* takes an invoke message from the head of its queue and hands it to
\* message(), and the delivery of a message of another type leaves it alone.
C10_InvokeMethodAsync ==
    [][ /\ invoked' # invoked =>
              \E t \in Threads :
                  /\ running[t] = NoMsg
                  /\ queue[t] # <<>>
                  /\ Head(queue[t]).type = "invoke"
                  /\ running'[t] = Head(queue[t])
                  /\ queue'[t] = Tail(queue[t])
        /\ \A t \in Threads :
              (running[t] = NoMsg /\ running'[t] # NoMsg
                 /\ running'[t].type # "invoke") => invoked' = invoked
      ]_vars

\* C10 witness: a thread runs a bound method of one of its own objects that
\* the same thread asked for through invokeMethod.
C10_Witness ==
    \E t \in Threads :
        /\ running[t].type = "invoke"
        /\ running[t].src = t
        /\ thread_[running[t].rcv] = t
        /\ invoked = 1
        /\ \A s \in Signals : slots[s] = <<>>

(***************************************************************************)
(* CameraManager::Private: the camera registry                             *)
(***************************************************************************)
\* the least element of a non-empty set of numbers
MinOf(S) == CHOOSE x \in S : \A y \in S : x <= y

\* the cameras cameras_ holds
Registered == {cameras_[i] : i \in 1..Len(cameras_)}

\* A Camera object exists as long as a shared_ptr refers to it: an entry of
\* cameras_, a reference of the application, or the `camera` argument of the
\* addCamera()/removeCamera() call in progress.
Alive(c) == c \in Registered \/ c \in appRefs \/ c = ccam

\* std::weak_ptr<Camera>::lock() on a map entry: the camera while it exists
WeakLock(c) == IF c # NoCamera /\ Alive(c) THEN c ELSE NoCamera

\* CameraManager::cameras(): return d->cameras_
CamerasList == cameras_

\* CameraManager::get(id): the first camera of cameras_ with that id
GetById(id) ==
    LET idx == {i \in 1..Len(cameras_) : CameraId[cameras_[i]] = id}
    IN  IF idx = {} THEN NoCamera ELSE cameras_[MinOf(idx)]

\* CameraManager::get(devnum): camerasByDevnum_.find(devnum), then lock()
GetByDevnum(d) == WeakLock(camerasByDevnum_[d])

\* the worker is where pipeline handlers run: inside createPipelineHandlers()
\* called by init(), or inside an event handler called by exec()
InHandlers == wpc \in {"handlers", "exec"}

\* the camera has lost its last reference and its DeferredDelete message is
\* queued or being delivered: the object is no longer anybody's to pass on
AwaitsDelete(c) ==
    \/ handling = DeferredDelete(c)
    \/ \E i \in 1..Len(wq) : wq[i] = DeferredDelete(c)

\* addCamera(camera): ASSERT(Thread::current() == this), then
\* MutexLocker locker(mutex_)
AddCameraLock(c) ==
    /\ UNCHANGED <<objVars, loopVars, bufVars>>
    /\ InHandlers
    /\ handling = NoWMsg
    /\ ~AwaitsDelete(c)
    /\ cpc = "idle"
    /\ mutex_ = "none"
    /\ mutex_' = "worker"
    /\ cpc' = "add_check"
    /\ ccam' = c
    /\ UNCHANGED <<mpc, wpc, cvWaiters, initialized_, status_, status, ret,
                   exit_, enumerator_, connected, startRet, everSlept,
                   execEntered, cleanupRan>>
    /\ UNCHANGED <<cameras_, camerasByDevnum_, appRefs, unregistered, lastOp>>

\* mutant: addCamera() does not look for the id among the registered cameras
IsDuplicateNever(c) == FALSE

\* for (c : cameras_) if (c->id() == camera->id())
IsDuplicate(c) ==
    \E i \in 1..Len(cameras_) : CameraId[cameras_[i]] = CameraId[c]

\* for (dev_t devnum : devnums) camerasByDevnum_[devnum] = cameras_[index]
RegisterDevnums(map, c) ==
    [d \in DevNums |->
        IF \E i \in 1..Len(SystemDevices[c]) : SystemDevices[c][i] = d
        THEN c
        ELSE map[d]]

\* addCamera(): a duplicate id is logged and the function returns (the
\* locker is released); otherwise the camera joins cameras_ and its device
\* numbers join camerasByDevnum_
AddCameraCheck ==
    /\ UNCHANGED <<objVars, loopVars, bufVars>>
    /\ cpc = "add_check"
    /\ IF IsDuplicate(ccam)
       THEN /\ mutex_' = "none"
            /\ cpc' = "idle"
            /\ ccam' = NoCamera
            /\ lastOp' = "duplicate"
            /\ UNCHANGED <<cameras_, camerasByDevnum_, unregistered>>
       ELSE /\ cameras_' = Append(cameras_, ccam)
            /\ camerasByDevnum_' = RegisterDevnums(camerasByDevnum_, ccam)
            /\ unregistered' = unregistered \ {ccam}
            /\ cpc' = "add_emit"
            /\ UNCHANGED <<mutex_, ccam, lastOp>>
    /\ UNCHANGED <<mpc, wpc, cvWaiters, initialized_, status_, status, ret,
                   exit_, enumerator_, connected, startRet, everSlept,
                   execEntered, cleanupRan>>
    /\ UNCHANGED appRefs

\* o->cameraAdded.emit(cameras_[index]), the locker still in scope. A slot
\* connected from the manager's thread, or one that is not a method of an
\* Object, is called inside emit(); it may call cameras() or get(), which
\* start with MutexLocker locker(d->mutex_).
AddCameraEmit ==
    /\ UNCHANGED <<objVars, loopVars, bufVars>>
    /\ cpc = "add_emit"
    /\ \E slotLocks \in BOOLEAN :
          cpc' = IF slotLocks THEN "add_slot" ELSE "add_return"
    /\ UNCHANGED mgrVars
    /\ UNCHANGED <<cameras_, camerasByDevnum_, appRefs, unregistered, ccam,
                   lastOp>>

\* addCamera() returns: the locker leaves scope
AddCameraReturn ==
    /\ UNCHANGED <<objVars, loopVars, bufVars>>
    /\ cpc = "add_return"
    /\ mutex_' = "none"
    /\ cpc' = "idle"
    /\ ccam' = NoCamera
    /\ lastOp' = "added"
    /\ UNCHANGED <<mpc, wpc, cvWaiters, initialized_, status_, status, ret,
                   exit_, enumerator_, connected, startRet, everSlept,
                   execEntered, cleanupRan>>
    /\ UNCHANGED <<cameras_, camerasByDevnum_, appRefs, unregistered>>

\* removeCamera(camera): ASSERT(Thread::current() == this), then
\* MutexLocker locker(mutex_)
RemoveCameraLock(c) ==
    /\ UNCHANGED <<objVars, loopVars, bufVars>>
    /\ InHandlers
    /\ handling = NoWMsg
    /\ ~AwaitsDelete(c)
    /\ cpc = "idle"
    /\ mutex_ = "none"
    /\ mutex_' = "worker"
    /\ cpc' = "rm_find"
    /\ ccam' = c
    /\ UNCHANGED <<mpc, wpc, cvWaiters, initialized_, status_, status, ret,
                   exit_, enumerator_, connected, startRet, everSlept,
                   execEntered, cleanupRan>>
    /\ UNCHANGED <<cameras_, camerasByDevnum_, appRefs, unregistered, lastOp>>

\* iter_d = find_if(camerasByDevnum_, p.second.lock().get() == camera.get());
\* if (iter_d != end) camerasByDevnum_.erase(iter_d): the map is ordered by
\* device number and the first matching entry is the one erased
EraseDevnum(map, c) ==
    LET ds == {d \in DevNums : WeakLock(map[d]) = c}
    IN  IF ds = {} THEN map ELSE [map EXCEPT ![MinOf(ds)] = NoCamera]

\* mutant: removeCamera() leaves cameras_ as it is
EraseCameraNone(list, c) == list

\* cameras_.erase(iter), iter the first entry that points to the camera
EraseCamera(list, c) ==
    LET idx == {i \in 1..Len(list) : list[i] = c}
    IN  IF idx = {} THEN list
        ELSE [i \in 1..(Len(list) - 1) |->
                 IF i < MinOf(idx) THEN list[i] ELSE list[i + 1]]

\* removeCamera(): a camera that is not in cameras_ makes the function
\* return; otherwise one entry of camerasByDevnum_ and the entry of cameras_
\* are erased
RemoveCameraFind ==
    /\ UNCHANGED <<objVars, loopVars, bufVars>>
    /\ cpc = "rm_find"
    /\ IF ccam \notin Registered
       THEN /\ mutex_' = "none"
            /\ cpc' = "idle"
            /\ ccam' = NoCamera
            /\ lastOp' = "missing"
            /\ UNCHANGED <<cameras_, camerasByDevnum_>>
       ELSE /\ camerasByDevnum_' = EraseDevnum(camerasByDevnum_, ccam)
            /\ cameras_' = EraseCamera(cameras_, ccam)
            /\ cpc' = "rm_emit"
            /\ UNCHANGED <<mutex_, ccam, lastOp>>
    /\ UNCHANGED <<mpc, wpc, cvWaiters, initialized_, status_, status, ret,
                   exit_, enumerator_, connected, startRet, everSlept,
                   execEntered, cleanupRan>>
    /\ UNCHANGED <<appRefs, unregistered>>

\* o->cameraRemoved.emit(camera), the locker still in scope
RemoveCameraEmit ==
    /\ UNCHANGED <<objVars, loopVars, bufVars>>
    /\ cpc = "rm_emit"
    /\ \E slotLocks \in BOOLEAN :
          cpc' = IF slotLocks THEN "rm_slot" ELSE "rm_return"
    /\ UNCHANGED mgrVars
    /\ UNCHANGED <<cameras_, camerasByDevnum_, appRefs, unregistered, ccam,
                   lastOp>>

\* removeCamera() returns: the locker leaves scope, and so does the
\* caller's shared_ptr; if the application holds none the camera has lost
\* its last reference
RemoveCameraReturn ==
    /\ UNCHANGED <<objVars, bufVars>>
    /\ cpc = "rm_return"
    /\ wq' = DeferDelete(wq, IF ccam \in appRefs THEN <<>> ELSE <<ccam>>)
    /\ UNCHANGED handling
    /\ mutex_' = "none"
    /\ cpc' = "idle"
    /\ unregistered' = unregistered \cup {ccam}
    /\ ccam' = NoCamera
    /\ lastOp' = "removed"
    /\ UNCHANGED <<mpc, wpc, cvWaiters, initialized_, status_, status, ret,
                   exit_, enumerator_, connected, startRet, everSlept,
                   execEntered, cleanupRan>>
    /\ UNCHANGED <<cameras_, camerasByDevnum_, appRefs>>

\* The slot called inside emit() locks mutex_, which its own thread holds.
\* Locking a std::mutex the caller owns is undefined: the thread may block
\* for good (no step), or the lock may be let through, which is this step.
SlotLockLetThrough ==
    /\ UNCHANGED <<objVars, loopVars, bufVars>>
    /\ cpc \in {"add_slot", "rm_slot"}
    /\ mutex_ = "worker"
    /\ cpc' = IF cpc = "add_slot" THEN "add_return" ELSE "rm_return"
    /\ UNCHANGED mgrVars
    /\ UNCHANGED <<cameras_, camerasByDevnum_, appRefs, unregistered, ccam,
                   lastOp>>

\* the application, once start() has returned 0, calls cameras() and keeps
\* one of the cameras
AppCameras ==
    /\ UNCHANGED <<mgrVars, objVars, loopVars, bufVars>>
    /\ mpc = "started"
    /\ mutex_ = "none"
    /\ \E i \in 1..Len(CamerasList) :
          appRefs' = appRefs \cup {CamerasList[i]}
    /\ UNCHANGED <<cameras_, camerasByDevnum_, unregistered, cpc, ccam,
                   lastOp>>

\* the application calls get(id) and keeps the camera it is given
AppGetById(id) ==
    /\ UNCHANGED <<mgrVars, objVars, loopVars, bufVars>>
    /\ mpc = "started"
    /\ mutex_ = "none"
    /\ GetById(id) # NoCamera
    /\ appRefs' = appRefs \cup {GetById(id)}
    /\ UNCHANGED <<cameras_, camerasByDevnum_, unregistered, cpc, ccam,
                   lastOp>>

\* the application calls get(devnum) and keeps the camera it is given
AppGetByDevnum(d) ==
    /\ UNCHANGED <<mgrVars, objVars, loopVars, bufVars>>
    /\ mpc = "started"
    /\ mutex_ = "none"
    /\ GetByDevnum(d) # NoCamera
    /\ appRefs' = appRefs \cup {GetByDevnum(d)}
    /\ UNCHANGED <<cameras_, camerasByDevnum_, unregistered, cpc, ccam,
                   lastOp>>

\* the application drops its reference to a camera
AppRelease(c) ==
    /\ UNCHANGED <<mgrVars, objVars, bufVars>>
    /\ c \in appRefs
    /\ appRefs' = appRefs \ {c}
    /\ wq' = DeferDelete(wq, IF c \in Registered \/ c = ccam THEN <<>>
                                                           ELSE <<c>>)
    /\ UNCHANGED handling
    /\ UNCHANGED <<cameras_, camerasByDevnum_, unregistered, cpc, ccam,
                   lastOp>>

\* the steps of the worker inside addCamera() and removeCamera()
RegistryStep ==
    \/ \E c \in Cameras : AddCameraLock(c)
    \/ AddCameraCheck
    \/ AddCameraEmit
    \/ AddCameraReturn
    \/ \E c \in Cameras : RemoveCameraLock(c)
    \/ RemoveCameraFind
    \/ RemoveCameraEmit
    \/ RemoveCameraReturn
    \/ SlotLockLetThrough

\* the calls of the application
AppStep ==
    \/ AppCameras
    \/ \E id \in CameraIds : AppGetById(id)
    \/ \E d \in DevNums : AppGetByDevnum(d)
    \/ \E c \in Cameras : AppRelease(c)

\* the deliveries of the manager thread: by its event loop, and by
\* dispatchMessages() in cleanup()
LoopStep ==
    \/ ExecDispatch
    \/ CleanupDispatch
    \/ HandlerDone

NextCam ==
    \/ Next
    \/ RegistryStep
    \/ AppStep
    \/ LoopStep

\* the manager started and stopped once, pipeline handlers registering and
\* unregistering cameras and the application looking cameras up meanwhile
SpecCam == Init /\ [][NextCam]_vars

\* the same, other threads posting messages to objects of the manager thread
NextStop ==
    \/ NextCam
    \/ PostOther

SpecStop == Init /\ [][NextStop]_vars

(***************************************************************************)
(* The camera registry: what the signals and the look-ups report           *)
(***************************************************************************)
\* C11: whenever cameraAdded(c) is emitted (and while a slot called inside
\* the emit runs) c is in the list cameras() returns; whenever
\* cameraRemoved(c) is emitted c is not in that list; and either signal is
\* emitted by the manager's thread, inside init() or exec().
C11_SignalsMatchList ==
    /\ cpc \in {"add_emit", "add_slot"} => ccam \in Registered
    /\ cpc \in {"rm_emit", "rm_slot"} => ccam \notin Registered
    /\ cpc \in {"add_emit", "rm_emit"} => (InHandlers /\ mutex_ = "worker")

\* C11 witness: cameraRemoved(camA) is about to be emitted while camC stays
\* registered, camA having been announced by cameraAdded before.
C11_Witness ==
    /\ cpc = "rm_emit"
    /\ ccam = "camA"
    /\ cameras_ = <<"camC">>
    /\ lastOp = "added"

\* C12: once removeCamera(c) has returned (and while no other addCamera() or
\* removeCamera() is running) c is reported neither by cameras(), nor by
\* get(id), nor by get(devnum) for any of the device numbers addCamera()
\* registered for it, whoever still refers to it.
C12_RemovedNotReported ==
    \A c \in unregistered :
        cpc = "idle" =>
        /\ c \notin Registered
        /\ GetById(CameraId[c]) # c
        /\ \A i \in 1..Len(SystemDevices[c]) :
               GetByDevnum(SystemDevices[c][i]) # c

\* no two registered cameras have the same id
UniqueIds ==
    \A i, j \in 1..Len(cameras_) :
        i # j => CameraId[cameras_[i]] # CameraId[cameras_[j]]

\* C17: cameras_ never holds two cameras with the same id; an addCamera()
\* whose id is registered already, and a removeCamera() of a camera that is
\* not registered, change neither cameras_ nor camerasByDevnum_ and reach no
\* emit.
C17_UniqueIdsAndNoOps ==
    /\ []UniqueIds
    /\ [][ ( \/ /\ cpc = "add_check"
                /\ \E i \in 1..Len(cameras_) :
                      CameraId[cameras_[i]] = CameraId[ccam]
             \/ /\ cpc = "rm_find"
                /\ \A i \in 1..Len(cameras_) : cameras_[i] # ccam )
           => /\ cameras_' = cameras_
              /\ camerasByDevnum_' = camerasByDevnum_
              /\ cpc' \in {cpc, "idle"}
         ]_vars

\* C17 witness: addCamera(camB) has just returned without registering camB,
\* whose id camA holds, with camA and camC registered.
C17_Witness ==
    /\ lastOp = "duplicate"
    /\ cpc = "idle"
    /\ cameras_ = <<"camA", "camC">>
    /\ camerasByDevnum_ = [d \in DevNums |-> IF d = 3 THEN "camC" ELSE "camA"]

\* C20: the manager's thread never waits for mutex_ while it holds mutex_
\* itself: no slot called inside the emit of addCamera() or removeCamera()
\* is at the lock of cameras() or get() with the locker of addCamera() or
\* removeCamera() still in scope.
C20_NoSelfDeadlock ==
    ~(cpc \in {"add_slot", "rm_slot"} /\ mutex_ = "worker")

(***************************************************************************)
(* Stopping the manager thread                                             *)
(***************************************************************************)
\* a delivery begins: the manager thread takes a message and calls its
\* receiver's handler
DeliveryBegins == handling = NoWMsg /\ handling' # NoWMsg

\* C13: a stop takes effect between deliveries. The event loop never leaves
\* exec() while a handler runs; once exit is requested the loop begins no
\* further delivery; after the loop the only deliveries are those of
\* DeferredDelete messages by cleanup(); and once wait() has returned
\* nothing is delivered any more and what is queued stays queued.
C13_StopBetweenDispatches ==
    /\ [](wpc \in {"cleanup", "cl_clear", "cl_reset", "finished", "joined"}
             => handling = NoWMsg)
    /\ [][ DeliveryBegins =>
              \/ wpc = "exec" /\ ~exit_
              \/ wpc = "cl_dispatch" /\ handling'.type = "DeferredDelete"
         ]_vars
    /\ [][ mpc = "stopped" =>
              /\ handling' = handling
              /\ \A i \in 1..Len(wq) : i <= Len(wq') /\ wq'[i] = wq[i]
         ]_vars

\* C13 witness: wait() has returned; two messages that were queued when the
\* loop left are still queued, undelivered, while the DeferredDelete message
\* of the camera cleanup() released has been delivered.
C13_Witness ==
    /\ mpc = "stopped"
    /\ wq = <<OtherMsg, OtherMsg>>
    /\ lastOp = "added"
    /\ appRefs = {}
    /\ cameras_ = <<>>

\* C18: cleanup() runs only after a successful init(); it disconnects from
\* devicesAdded first, so that no pipeline handler registers a camera any
\* more, then empties cameras_, then delivers the DeferredDelete messages,
\* and releases the enumerator last: no camera is deleted once the
\* enumerator is gone.
C18_CleanupOrder ==
    /\ cleanupRan => (ret = <<0>> /\ cpc = "idle")
    /\ wpc \in {"cl_clear", "cl_dispatch", "cl_reset"} => ~connected
    /\ wpc \in {"cl_dispatch", "cl_reset"} => cameras_ = <<>>
    /\ wpc \in {"cleanup", "cl_clear", "cl_dispatch", "cl_reset"} => enumerator_
    /\ handling.type = "DeferredDelete" => enumerator_
    /\ wpc \in {"cl_reset", "finished", "joined"} => handling = NoWMsg

\* C18 witness: cleanup() is deleting camA, which it has just dropped from
\* cameras_, with devicesAdded disconnected and the enumerator still held.
C18_Witness ==
    /\ wpc = "cl_dispatch"
    /\ handling = DeferredDelete("camA")
    /\ cameras_ = <<>>
    /\ ~connected
    /\ enumerator_

(***************************************************************************)
(* Moving an object to another thread                                      *)
(***************************************************************************)
\* thread t is inside message() with the ThreadMoveMessage of object o
Notifying(t, o) == moving[t].obj = o /\ moving[t].stage = "notify"

\* posting and dispatching messages while objects are moved between threads,
\* by their own thread and by others; no signal is connected
NextMoveTo ==
    \/ \E t \in Threads, o \in Objects : PostMessage(t, o)
    \/ \E t \in Threads : ThreadPostMessage(t)
    \/ \E t \in Threads : Dispatch(t)
    \/ \E t \in Threads : HandlerReturn(t)
    \/ \E t \in Threads, o \in Objects, target \in Threads :
          MoveToThread(t, o, target)
    \/ \E t \in Threads : MoveObject(t)
    \/ \E t \in Threads : MoveReturn(t)

SpecMoveTo == InitRuntime /\ [][NextMoveTo]_vars

\* C14: moveToThread(T) called on the object's thread with another thread T
\* as target delivers the ThreadMoveMessage in the calling thread while the
\* object still lives there, and the object's thread changes to T only when
\* that delivery has returned; with the object's own thread as target the
\* call delivers no ThreadMoveMessage and changes nothing.
C14_NotifyBeforeMove ==
    /\ [](\A t \in Threads, o \in Objects :
             Notifying(t, o) => (thread_[o] = t /\ moving[t].target # t))
    /\ [][ \A o \in Objects :
             thread_'[o] # thread_[o] =>
                 /\ Notifying(thread_[o], o)
                 /\ moving[thread_[o]].target = thread_'[o]
                 /\ moving'[thread_[o]] = NoMove
         ]_vars
    /\ [][ \A t \in Threads :
             (/\ moving'[t] # moving[t]
              /\ "return" \in {moving[t].stage, moving'[t].stage}) =>
                 /\ UNCHANGED <<thread_, queue, pendingMessages_, running>>
                 /\ "notify" \notin {moving[t].stage, moving'[t].stage}
         ]_vars
    /\ [](\A t \in Threads :
             moving[t].stage = "return" =>
                 (moving[t].target = t /\ thread_[moving[t].obj] = t))

\* C14 witness: o1, with a message queued for it in t1, is being told in
\* t1 that it is about to move to t2.
C14_Witness ==
    /\ Notifying("t1", "o1")
    /\ moving["t1"].target = "t2"
    /\ thread_["o1"] = "t1"
    /\ \E m \in Queued("t1") : m.rcv = "o1"

QueuedFor(t, o) ==
    Cardinality({i \in 1..Len(queue[t]) : queue[t][i].rcv = o})

\* C16: an object's pendingMessages_ is the number of messages queued for
\* it in its thread's queue, so that the destructor, which purges that queue
\* only when pendingMessages_ is not zero, leaves no message for the object
\* behind.
C16_PendingCountsQueued ==
    \A o \in Objects :
        life[o] = "alive" => pendingMessages_[o] = QueuedFor(thread_[o], o)

(***************************************************************************)
(* Starting a stopped manager again                                        *)
(***************************************************************************)
\* CameraManager::start() on a manager that was stopped, or whose start()
\* failed: Thread::start() spawns a new worker, which begins run() again;
\* start() and run() have fresh locals, while initialized_ and status_ are
\* members that only run() writes and keep what the last run left in them
CallStartAgain ==
    /\ UNCHANGED <<objVars, camVars, loopVars, bufVars>>
    /\ mpc \in {"stopped", "failed"}
    /\ wpc = "joined"
    /\ mpc' = "lock"
    /\ wpc' = "init"
    /\ exit_' = FALSE
    /\ status' = NoValue
    /\ ret' = NoValue
    /\ startRet' = NoValue
    /\ everSlept' = FALSE
    /\ execEntered' = FALSE
    /\ cleanupRan' = FALSE
    /\ UNCHANGED <<mutex_, cvWaiters, initialized_, status_, enumerator_,
                   connected>>

NextCycle == Next \/ CallStartAgain

\* start() and stop() called again and again on one manager
SpecCycle == Init /\ [][NextCycle]_vars

\* start() has read status_ into its local and is past the wait
WaitPassed ==
    mpc \in {"check", "exit", "join", "failed", "started", "stop_wait",
             "stopped"}

\* C19: in every start() of a manager, the first or a later one, the waiter
\* gets past the wait only when the worker run this start() spawned has
\* executed init() and published its result, the status it reads is that
\* result, and start() returns it (0 for a non-negative result).
C19_HandshakeEveryCycle ==
    /\ WaitPassed => (ret # NoValue /\ status = ret)
    /\ StartReturned =>
           /\ InitPublished
           /\ startRet[1] = IF ret[1] >= 0 THEN 0 ELSE ret[1]

(***************************************************************************)
(* stop() returns                                                          *)
(***************************************************************************)
\* the steps the manager thread takes on its own inside addCamera() and
\* removeCamera(), once called: not the arrival of the call, and not the
\* relock of mutex_ by a slot, which nothing guarantees to return
RegistryProgress ==
    \/ AddCameraCheck
    \/ AddCameraEmit
    \/ AddCameraReturn
    \/ RemoveCameraFind
    \/ RemoveCameraEmit
    \/ RemoveCameraReturn

\* SpecCam under a fair scheduler: a thread that can take a step again and
\* again eventually takes it, a handler that runs returns, and the event
\* loop gets to look at its exit request between two calls
SpecCamFair ==
    /\ SpecCam
    /\ SF_vars(MainStep)
    /\ SF_vars(WorkerStep)
    /\ SF_vars(RegistryProgress)
    /\ SF_vars(LoopStep)

\* C21: under fair scheduling a stop() called after start() returned 0
\* returns: once exit() has been called, wherever the worker is, the worker
\* gets to cleanup(), leaves run(), and wait() returns.
C21_StopReturns ==
    (mpc = "stop_wait") ~> (mpc = "stopped" /\ wpc = "joined" /\ cleanupRan)

(***************************************************************************)
(* CameraBuffer::Private (generic Android backend)                         *)
(***************************************************************************)
\* the constructor's loop over the planes, from plane i on, with the local
\* `offset` and planeInfo_ as they stand: plane i is recorded with the
\* handle's offset and size; the loop stops at a plane for which
\* bufferLength_ < offset + planeSize, offset being the sum of the sizes of
\* the planes before it
RECURSIVE PlaneLoop(_, _, _, _, _)
PlaneLoop(layout, length, i, offset, info) ==
    IF i > Len(layout)
    THEN info
    ELSE LET planeSize == layout[i].size
             recorded == [info EXCEPT ![i] = [offset |-> layout[i].offset,
                                              size   |-> planeSize]]
         IN  IF length < (offset + planeSize) % UIntModulus
             THEN recorded
             ELSE PlaneLoop(layout, length, i + 1,
                            (offset + planeSize) % UIntModulus, recorded)

\* planeInfo_.resize(numPlanes): value-initialised entries
ResizedPlaneInfo(n) == [i \in 1..n |-> [offset |-> 0, size |-> 0]]

\* a CameraBuffer is about to be constructed from some handle, pixel format
\* and file
BufNew ==
    /\ UNCHANGED <<mgrVars, objVars, camVars, loopVars>>
    /\ bpc = "none"
    /\ bpc' = "new"
    /\ \E fd \in HandleFds, layout \in PlaneLayouts :
          camera3Buffer' = [fd |-> fd, planes |-> layout]
    /\ pixelFormatValid' \in BOOLEAN
    /\ fileLength' \in FileLengths
    /\ UNCHANGED <<fd_, bufferLength_, mapped_, planeInfo_, error_, ctorError,
                   maps_, planes_, span>>

\* CameraBuffer::Private::Private(): fd_(-1), bufferLength_(-1),
\* mapped_(false), error_ = 0, then the checks in their order
BufConstruct ==
    /\ UNCHANGED <<mgrVars, objVars, camVars, loopVars>>
    /\ bpc = "new"
    /\ bpc' = "ready"
    /\ mapped_' = FALSE
    /\ IF ~pixelFormatValid
       THEN /\ error_' = -EINVAL
            /\ fd_' = -1
            /\ bufferLength_' = -1
            /\ planeInfo_' = <<>>
       ELSE IF camera3Buffer.fd = -1
       THEN /\ error_' = -EINVAL
            /\ fd_' = -1
            /\ bufferLength_' = -1
            /\ planeInfo_' = <<>>
       ELSE IF fileLength < 0
       THEN /\ \E e \in Errnos : error_' = -e
            /\ fd_' = camera3Buffer.fd
            /\ bufferLength_' = fileLength
            /\ planeInfo_' = <<>>
       ELSE /\ error_' = 0
            /\ fd_' = camera3Buffer.fd
            /\ bufferLength_' = fileLength
            /\ planeInfo_' =
                  PlaneLoop(camera3Buffer.planes, fileLength, 1, 0,
                            ResizedPlaneInfo(Len(camera3Buffer.planes)))
    /\ ctorError' = error_'
    /\ UNCHANGED <<camera3Buffer, pixelFormatValid, fileLength, maps_,
                   planes_, span>>

\* map(): ASSERT(fd_ != -1); ASSERT(bufferLength_ >= 0)
MapAsserts == fd_ # -1 /\ bufferLength_ >= 0

\* map(), after mmap() succeeded: one Span per entry of planeInfo_, at
\* address + info.offset with info.size bytes
MappedPlanes ==
    [i \in 1..Len(planeInfo_) |->
        [start |-> planeInfo_[i].offset, size |-> planeInfo_[i].size,
         valid |-> TRUE]]

\* CameraBuffer::Private::plane(plane) for a plane the buffer has: map() is
\* called while mapped_ is false; mmap() may fail, which sets error_ and
\* makes plane() return an empty span
BufPlane(plane) ==
    /\ UNCHANGED <<mgrVars, objVars, camVars, loopVars>>
    /\ bpc = "ready"
    /\ plane \in 1..Len(planeInfo_)
    /\ IF mapped_
       THEN /\ span' = planes_[plane]
            /\ UNCHANGED <<bpc, mapped_, error_, maps_, planes_>>
       ELSE IF ~MapAsserts
       THEN /\ bpc' = "aborted"
            /\ UNCHANGED <<mapped_, error_, maps_, planes_, span>>
       ELSE \E mmapOk \in BOOLEAN :
               IF mmapOk
               THEN /\ maps_' = Append(maps_, bufferLength_)
                    /\ planes_' = planes_ \o MappedPlanes
                    /\ mapped_' = TRUE
                    /\ span' = planes_'[plane]
                    /\ UNCHANGED <<bpc, error_>>
               ELSE /\ \E e \in Errnos : error_' = -e
                    /\ span' = NoSpan
                    /\ UNCHANGED <<bpc, mapped_, maps_, planes_>>
    /\ UNCHANGED <<camera3Buffer, pixelFormatValid, fileLength, fd_,
                   bufferLength_, planeInfo_, ctorError>>

NextBuf ==
    \/ BufNew
    \/ BufConstruct
    \/ \E plane \in 1..MaxPlanes : BufPlane(plane)

\* one CameraBuffer, constructed from any handle and then asked for its
\* planes again and again
InitBuf == InitRuntime /\ thread_ = [o \in Objects |-> "t1"]

SpecBuf == InitBuf /\ [][NextBuf]_vars

\* the layout the handle describes fits a file of the given length
LayoutFits(layout, length) ==
    \A i \in 1..Len(layout) : layout[i].offset + layout[i].size <= length

\* the span lies inside the mapped region
SpanInside(sp, length) == sp.start + sp.size <= length

\* C22: a CameraBuffer whose constructor leaves error_ at 0 has every plane
\* inside the buffer (offset + size <= bufferLength_), and a handle whose
\* layout does not fit leaves error_ non-zero; the buffer is mapped at most
\* once, and every span plane() returns lies inside that mapping.
C22_PlanesInsideBuffer ==
    bpc = "ready" =>
        /\ ctorError = 0 =>
              /\ LayoutFits(planeInfo_, bufferLength_)
              /\ LayoutFits(camera3Buffer.planes, fileLength)
        /\ Len(maps_) <= 1
        /\ mapped_ => (Len(maps_) = 1 /\ maps_[1] = bufferLength_)
        /\ (ctorError = 0 /\ span.valid) => SpanInside(span, maps_[1])

====
